---- MODULE Spec2Model ----
(***************************************************************************)
(* Model of the guest payload of testcases/kernel/kvm/kvm_pagefault01.c    *)
(* (CVE 2021-38198): main() builds two aliased 1 GiB windows in the page   *)
(* tables, registers handle_page_fault() and performs four memory          *)
(* accesses; the MMU of the virtual machine decides which of them fault.   *)
(*                                                                         *)
(* Physical addresses are bytes (all of them lie below 2 GiB).  Virtual    *)
(* addresses are kept as virtual page numbers (address >> 12), because the *)
(* pointers used by the test lie above 4 GiB; every pointer the payload    *)
(* dereferences has page offset 0.                                         *)
(***************************************************************************)
EXTENDS Integers, Sequences, FiniteSets, TLC

PTE_BITMASK == 511
PAGESIZE == 4096

\* ------------------------------------------------------------------ bounds
\* number of extra page-aligned positions the heap allocator may return
MaxHeapSlots == 1
\* number of distinct stale (non-zero) fill patterns of the heap
MaxStale == 1

VARIABLES
    pc,        \* position of main(), or of the fault handler
    efer,      \* flags of MSR_EFER set by the bootstrap
    levels,    \* depth of the active page-table tree (4 or 5)
    mmu,       \* behaviour of the virtual MMU
    mem,       \* physical memory: frame -> 512 entries
    ptcache,   \* paging-structure cache: table frame -> inherited write right
    pte,       \* main: struct page_table_entry_pae *pte
    tmp,       \* main: uintptr_t tmp
    heap,      \* main: int *writable while it holds the allocated block
    ptrs,      \* main: cacher1, writable, cacher2, readonly (virtual pages)
    val,       \* main: int val
    callback,  \* page-fault callback registered with the interrupt table
    cr2,       \* faulting address register
    step,      \* index of the next probe access
    results,   \* results reported with tst_res / tst_brk, in order
    faults,    \* addresses of the page faults raised so far, in order
    log        \* executed steps, in order

vars == << pc, efer, levels, mmu, mem, ptcache, pte, tmp, heap, ptrs, val,
           callback, cr2, step, results, faults, log >>

\* --------------------------------------------------------- page-table entry
\* struct page_table_entry_pae: the bit-fields the payload uses
ZeroEntry ==
    [present |-> 0, writable |-> 0, user_access |-> 0, page_size |-> 0,
     address |-> 0]

ZeroPage == [i \in 0..PTE_BITMASK |-> ZeroEntry]

\* tmp >> 12
FrameOf(addr) == addr \div PAGESIZE

\* kvm_get_page_address_pae(entry): physical address the entry points at
kvm_get_page_address_pae(entry) == entry.address * PAGESIZE

\* --------------------------------------------------- bootstrap page tables
\* The bootstrap keeps one table per paging level: frame L holds the table of
\* level L (5 = PML5, 4 = PML4, 3 = the table whose entries cover 1 GiB),
\* frame 2 the directory of the fourth GiB and frame 1 its last page table.
BootTable(L) == L

\* kvm_pagetable: root of the active hierarchy
kvm_pagetable(lv) == BootTable(lv) * PAGESIZE

\* the heap starts above the bootstrap tables, at 2 MiB
HeapFirstFrame == PTE_BITMASK + 1

\* tst_heap_alloc_aligned(5 * PAGESIZE, PAGESIZE) returns one of these blocks
HeapBases == {(HeapFirstFrame + k) * PAGESIZE : k \in 0..MaxHeapSlots}

HeapFrames == HeapFirstFrame .. (HeapFirstFrame + MaxHeapSlots + 4)

PhysFrames == (1..5) \cup HeapFrames

BootEntry(frame, large) ==
    [present |-> 1, writable |-> 1, user_access |-> 1,
     page_size |-> IF large THEN 1 ELSE 0, address |-> frame]

\* stale content of unallocated heap memory: pattern 0 is zero, pattern g > 0
\* reads as a present, writable entry pointing at frame g
StaleEntry(g) ==
    IF g = 0 THEN ZeroEntry
    ELSE [present |-> 1, writable |-> 1, user_access |-> 1, page_size |-> 0,
          address |-> g]

\* Layout left by the bootstrap (comment in main):
\*   0x00000000 - 0x3fffffff in pte[0] (identity mapped)
\*   0x40000000 - 0x7fffffff in pte[1] (identity mapped)
\*   0x80000000 - 0xbfffffff in pte[2] (unmapped)
\*   0xc0000000 - 0xffffffff in pte[3] (only last page identity mapped)
\* Every table above has only its first entry in use.
BootLayout(lv, g) ==
    [f \in PhysFrames |->
        IF f \in HeapFrames THEN [i \in 0..PTE_BITMASK |-> StaleEntry(g)]
        ELSE IF f > lv THEN ZeroPage
        ELSE IF f > 3 THEN
            [i \in 0..PTE_BITMASK |->
                IF i = 0 THEN BootEntry(BootTable(f - 1), FALSE) ELSE ZeroEntry]
        ELSE IF f = 3 THEN
            [i \in 0..PTE_BITMASK |->
                CASE i = 0 -> BootEntry(0, TRUE)
                  [] i = 1 -> BootEntry(262144, TRUE)
                  [] i = 3 -> BootEntry(BootTable(2), FALSE)
                  [] OTHER -> ZeroEntry]
        ELSE IF f = 2 THEN
            [i \in 0..PTE_BITMASK |->
                IF i = PTE_BITMASK THEN BootEntry(BootTable(1), FALSE)
                ELSE ZeroEntry]
        ELSE
            [i \in 0..PTE_BITMASK |->
                IF i = PTE_BITMASK THEN BootEntry(1048575, FALSE)
                ELSE ZeroEntry]]

\* ------------------------------------------------------------ address walk
RECURSIVE Pow512(_)
Pow512(n) == IF n = 0 THEN 1 ELSE (PTE_BITMASK + 1) * Pow512(n - 1)

\* index slice of a virtual page number at paging level L (1 = page table).
\* Every address of the model lies below 2^48, so the slice of level 5 is 0.
IndexAt(vpn, L) ==
    IF L >= 5 THEN 0 ELSE (vpn \div Pow512(L - 1)) % (PTE_BITMASK + 1)

\* entries used by the hardware walk of vpn, from the root downwards; the
\* walk stops at a non-present entry, at a large page or at level 1
RECURSIVE WalkFrom(_, _, _, _)
WalkFrom(m, frame, L, vpn) ==
    IF frame \notin DOMAIN m THEN << >>
    ELSE LET i == IndexAt(vpn, L)
             e == m[frame][i]
             here == << [level |-> L, frame |-> frame, index |-> i, entry |-> e] >>
         IN IF e.present = 0 \/ e.page_size = 1 \/ L = 1
            THEN here
            ELSE IF e.address \in DOMAIN m
                 THEN here \o WalkFrom(m, e.address, L - 1, vpn)
                 ELSE here \o << [level |-> 0, frame |-> e.address, index |-> 0,
                                  entry |-> ZeroEntry] >>

Walk(m, lv, vpn) == WalkFrom(m, FrameOf(kvm_pagetable(lv)), lv, vpn)

Leaf(path) == path[Len(path)]

\* every entry of the walk is present
Mapped(path) == \A i \in 1..Len(path) : path[i].entry.present = 1

\* frame a mapped 4 KiB page translates to
FrameOfWalk(path) == Leaf(path).entry.address

\* write right of the walk: the writable bit of every level
PathWritable(path) == \A i \in 1..Len(path) : path[i].entry.writable = 1

\* ------------------------------------------------------------ virtual MMU
\* "correct": a write needs the writable bit of every level of its walk.
\* "defective": the write right inherited by a table is taken from the
\*   paging-structure cache when the table was reached before, whichever
\*   entry led to it then (the missing page fault of CVE 2021-38198).
\* "spurious": a correct MMU in an environment that may also raise a page
\*   fault on any access.
MmuKinds == {"correct", "defective", "spurious"}

EmptyCache == [f \in PhysFrames |-> "none"]

Min(a, b) == IF a < b THEN a ELSE b

\* write right inherited by the table of step i of the walk
RECURSIVE InheritedW(_, _, _)
InheritedW(cache, path, i) ==
    IF i = 1 THEN 1
    ELSE IF path[i].frame \in DOMAIN cache /\ cache[path[i].frame] # "none"
         THEN (IF cache[path[i].frame] = "rw" THEN 1 ELSE 0)
         ELSE Min(InheritedW(cache, path, i - 1), path[i - 1].entry.writable)

WriteAllowed(kind, cache, path) ==
    IF kind = "defective"
    THEN InheritedW(cache, path, Len(path)) = 1 /\ Leaf(path).entry.writable = 1
    ELSE PathWritable(path)

\* the access must raise a page fault
MustFault(kind, cache, path, op) ==
    \/ ~Mapped(path)
    \/ op = "write" /\ ~WriteAllowed(kind, cache, path)

\* a completed access leaves the tables it walked in the cache
FillCache(cache, path) ==
    [f \in DOMAIN cache |->
        IF cache[f] = "none" /\ \E i \in 2..Len(path) : path[i].frame = f
        THEN LET i == CHOOSE j \in 2..Len(path) : path[j].frame = f
             IN IF InheritedW(cache, path, i) = 1 THEN "rw" ELSE "ro"
        ELSE cache[f]]

\* ------------------------------------------------------------- data access
\* an int covers the low 32 bits of a 64-bit word: the flags and the low 20
\* bits of the address field
IntSpan == 1048576

\* val = *p
ReadInt(word) == [word EXCEPT !.address = word.address % IntSpan]

\* *p = val
WriteInt(word, v) ==
    [v EXCEPT !.address = (word.address \div IntSpan) * IntSpan + v.address]

\* ------------------------------------------------------------------- main
\* faulty variant: the mode check is missing
LongModeActive_Unchecked(e) == TRUE

\* kvm_rdmsr(MSR_EFER) & EFER_LMA
LongModeActive(e) == "LMA" \in e

\* faulty variant: the first branch entry is left read-only
Pte4Entry_ReadOnly(old, t) ==
    [old EXCEPT !.address = FrameOf(t), !.user_access = 1, !.writable = 0,
                !.present = 1]

\* pte[4]: lines 84-87
Pte4Entry(old, t) ==
    [old EXCEPT !.address = FrameOf(t), !.user_access = 1, !.writable = 1,
                !.present = 1]

\* faulty variant: the writable bit of the copy is not cleared
Pte5Entry_NoClear(e4) == e4

\* faulty variant: the second branch entry also loses its user bit
Pte5Entry_NoUser(e4) == [e4 EXCEPT !.writable = 0, !.user_access = 0]

\* pte[5] = pte[4]; pte[5].writable = 0
Pte5Entry(e4) == [e4 EXCEPT !.writable = 0]

\* subpte[0] of the directory: lines 92-95
PdCacheEntry(old, t) ==
    [old EXCEPT !.address = FrameOf(t + PAGESIZE), !.user_access = 1,
                !.writable = 0, !.present = 1]

\* faulty variant: the directory entry of the targets is read-only
PdTargetEntry_ReadOnly(old, t) ==
    [old EXCEPT !.address = FrameOf(t + 2 * PAGESIZE), !.user_access = 1,
                !.writable = 0, !.present = 1]

\* subpte[1] of the directory: lines 96-99
PdTargetEntry(old, t) ==
    [old EXCEPT !.address = FrameOf(t + 2 * PAGESIZE), !.user_access = 1,
                !.writable = 1, !.present = 1]

\* subpte[0] of the first page table: lines 102-105
PtCacheEntry(old, t) ==
    [old EXCEPT !.address = FrameOf(t + 3 * PAGESIZE), !.user_access = 1,
                !.writable = 1, !.present = 1]

\* faulty variant: the second page table maps the data page of the first one
PtTargetEntry_SameFrame(old, t) ==
    [old EXCEPT !.address = FrameOf(t + 3 * PAGESIZE), !.user_access = 1,
                !.writable = 1, !.present = 1]

\* faulty variant: the second page table maps the directory itself
PtTargetEntry_IntoTables(old, t) ==
    [old EXCEPT !.address = FrameOf(t), !.user_access = 1, !.writable = 1,
                !.present = 1]

\* subpte[0] of the second page table: lines 108-111
PtTargetEntry(old, t) ==
    [old EXCEPT !.address = FrameOf(t + 4 * PAGESIZE), !.user_access = 1,
                !.writable = 1, !.present = 1]

\* the four pointers, as virtual page numbers
CACHER1 == 1048576
WRITABLE == 1049088
CACHER2 == 1310720
READONLY == 1311232

\* faulty variant: the second pair of pointers lies in the fourth GiB
Pointers_LowWindow ==
    [cacher1 |-> CACHER1, writable |-> WRITABLE, cacher2 |-> 786432,
     readonly |-> 786944]

\* faulty variant: writable points into the third 2 MiB slice of its window
Pointers_ThirdSlice ==
    [cacher1 |-> CACHER1, writable |-> WRITABLE + PTE_BITMASK + 1,
     cacher2 |-> CACHER2, readonly |-> READONLY]

Pointers ==
    [cacher1 |-> CACHER1, writable |-> WRITABLE, cacher2 |-> CACHER2,
     readonly |-> READONLY]

NoPointers == [cacher1 |-> 0, writable |-> 0, cacher2 |-> 0, readonly |-> 0]

\* faulty variant: the write through readonly comes first
ProbeSeq_ProbeFirst ==
    << [ptr |-> "readonly", op |-> "write"],
       [ptr |-> "cacher1", op |-> "read"],
       [ptr |-> "writable", op |-> "write"],
       [ptr |-> "cacher2", op |-> "read"] >>

\* faulty variant: the read through cacher2 is missing
ProbeSeq_NoSecondRead ==
    << [ptr |-> "cacher1", op |-> "read"],
       [ptr |-> "writable", op |-> "write"],
       [ptr |-> "readonly", op |-> "write"] >>

\* the accesses of lines 122-127, in program order
ProbeSeq ==
    << [ptr |-> "cacher1", op |-> "read"],
       [ptr |-> "writable", op |-> "write"],
       [ptr |-> "cacher2", op |-> "read"],
       [ptr |-> "readonly", op |-> "write"] >>

\* faulty variant: every page fault counts as the expected one
FaultIsExpected_Any(addr, userdata) == TRUE

\* handle_page_fault: buf.cr2 == (uintptr_t)userdata
FaultIsExpected(addr, userdata) == addr = userdata

Ev(name, at) == [ev |-> name, at |-> at]

Init ==
    /\ pc = "check_mode"
    /\ efer \in {{"LME"}, {"LME", "LMA"}}
    /\ levels \in {4, 5}
    /\ mmu \in MmuKinds
    /\ \E g \in 0..MaxStale : mem = BootLayout(levels, g)
    /\ ptcache = EmptyCache
    /\ pte = kvm_pagetable(levels)
    /\ tmp = 0
    /\ heap = 0
    /\ ptrs = NoPointers
    /\ val = ZeroEntry
    /\ callback = [registered |-> FALSE, userdata |-> 0]
    /\ cr2 = 0
    /\ step = 1
    /\ results = << >>
    /\ faults = << >>
    /\ log = << >>

\* if (!(kvm_rdmsr(MSR_EFER) & EFER_LMA)) tst_brk(TBROK, ...)
CheckMode ==
    /\ pc = "check_mode"
    /\ IF LongModeActive(efer)
       THEN /\ pc' = "find_branch"
            /\ UNCHANGED results
       ELSE /\ pc' = "aborted"
            /\ results' = Append(results, "TBROK")
    /\ log' = Append(log, Ev("check_mode", 0))
    /\ UNCHANGED << efer, levels, mmu, mem, ptcache, pte, tmp, heap, ptrs, val,
                    callback, cr2, step, faults >>

\* faulty variant: the loop tests the third entry
BranchLoopCond_ThirdEntry(table) == table[2].present = 0

\* condition of the search loop: !pte[1].present
BranchLoopCond(table) == table[1].present = 0

\* faulty variant: the loop follows the second entry of the table
Descend_SecondEntry ==
    /\ pc = "find_branch"
    /\ FrameOf(pte) \in DOMAIN mem
    /\ BranchLoopCond(mem[FrameOf(pte)])
    /\ tmp' = kvm_get_page_address_pae(mem[FrameOf(pte)][1])
    /\ pte' = tmp'
    /\ log' = Append(log, Ev("descend", tmp'))
    /\ UNCHANGED << pc, efer, levels, mmu, mem, ptcache, heap, ptrs, val,
                    callback, cr2, step, results, faults >>

\* while (!pte[1].present): loop body
Descend ==
    /\ pc = "find_branch"
    /\ FrameOf(pte) \in DOMAIN mem
    /\ BranchLoopCond(mem[FrameOf(pte)])
    /\ tmp' = kvm_get_page_address_pae(mem[FrameOf(pte)][0])
    /\ pte' = tmp'
    /\ log' = Append(log, Ev("descend", tmp'))
    /\ UNCHANGED << pc, efer, levels, mmu, mem, ptcache, heap, ptrs, val,
                    callback, cr2, step, results, faults >>

\* while (!pte[1].present): loop exit
BranchFound ==
    /\ pc = "find_branch"
    /\ FrameOf(pte) \in DOMAIN mem
    /\ ~BranchLoopCond(mem[FrameOf(pte)])
    /\ pc' = "alloc"
    /\ log' = Append(log, Ev("branch", pte))
    /\ UNCHANGED << efer, levels, mmu, mem, ptcache, pte, tmp, heap, ptrs, val,
                    callback, cr2, step, results, faults >>

\* writable = tst_heap_alloc_aligned(5 * PAGESIZE, PAGESIZE)
Alloc ==
    /\ pc = "alloc"
    /\ \E b \in HeapBases : heap' = b
    /\ pc' = "memset"
    /\ log' = Append(log, Ev("alloc", heap'))
    /\ UNCHANGED << efer, levels, mmu, mem, ptcache, pte, tmp, ptrs, val,
                    callback, cr2, step, results, faults >>

\* faulty variant: only the first two pages of the block are zeroed
Memset_TwoPages ==
    /\ pc = "memset"
    /\ mem' = [f \in DOMAIN mem |->
                 IF f \in FrameOf(heap) .. (FrameOf(heap + 2 * PAGESIZE) - 1)
                 THEN ZeroPage ELSE mem[f]]
    /\ pc' = "pte4"
    /\ log' = Append(log, Ev("memset", heap))
    /\ UNCHANGED << efer, levels, mmu, ptcache, pte, tmp, heap, ptrs, val,
                    callback, cr2, step, results, faults >>

\* memset(writable, 0, 5 * PAGESIZE)
Memset ==
    /\ pc = "memset"
    /\ mem' = [f \in DOMAIN mem |->
                 IF f \in FrameOf(heap) .. (FrameOf(heap + 5 * PAGESIZE) - 1)
                 THEN ZeroPage ELSE mem[f]]
    /\ pc' = "pte4"
    /\ log' = Append(log, Ev("memset", heap))
    /\ UNCHANGED << efer, levels, mmu, ptcache, pte, tmp, heap, ptrs, val,
                    callback, cr2, step, results, faults >>

\* one store into entry idx of the table at physical address tbl
Store(tbl, idx, e, here, next) ==
    /\ pc = here
    /\ mem' = [mem EXCEPT ![FrameOf(tbl)][idx] = e]
    /\ pc' = next
    /\ log' = Append(log, Ev(here, tbl))
    /\ UNCHANGED << efer, levels, mmu, ptcache, pte, heap, ptrs, val,
                    callback, cr2, step, results, faults >>

\* faulty variant: the first new entry goes into the third entry of the table
InstallPte4_ThirdRegion ==
    /\ tmp' = heap
    /\ Store(pte, 2, Pte4Entry(mem[FrameOf(pte)][2], tmp'), "pte4", "pte5")

\* tmp = (uintptr_t)writable; pte[4] = ...
InstallPte4 ==
    /\ tmp' = heap
    /\ Store(pte, 4, Pte4Entry(mem[FrameOf(pte)][4], tmp'), "pte4", "pte5")

\* faulty variant: the copy goes into the entry of the fourth GiB
InstallPte5_FourthRegion ==
    /\ Store(pte, 3, Pte5Entry(mem[FrameOf(pte)][4]), "pte5", "pd_cache")
    /\ UNCHANGED tmp

\* pte[5] = pte[4]; pte[5].writable = 0
InstallPte5 ==
    /\ Store(pte, 5, Pte5Entry(mem[FrameOf(pte)][4]), "pte5", "pd_cache")
    /\ UNCHANGED tmp

\* subpte = tmp; subpte[0] = ...
InstallPdCache ==
    /\ Store(tmp, 0, PdCacheEntry(mem[FrameOf(tmp)][0], tmp), "pd_cache",
             "pd_target")
    /\ UNCHANGED tmp

\* subpte[1] = ...
InstallPdTarget ==
    /\ Store(tmp, 1, PdTargetEntry(mem[FrameOf(tmp)][1], tmp), "pd_target",
             "pt_cache")
    /\ UNCHANGED tmp

\* subpte = tmp + PAGESIZE; subpte[0] = ...
InstallPtCache ==
    /\ Store(tmp + PAGESIZE, 0,
             PtCacheEntry(mem[FrameOf(tmp + PAGESIZE)][0], tmp), "pt_cache",
             "pt_target")
    /\ UNCHANGED tmp

\* subpte = tmp + 2 * PAGESIZE; subpte[0] = ...
InstallPtTarget ==
    /\ Store(tmp + 2 * PAGESIZE, 0,
             PtTargetEntry(mem[FrameOf(tmp + 2 * PAGESIZE)][0], tmp),
             "pt_target", "pointers")
    /\ UNCHANGED tmp

\* cacher1 = ...; writable = ...; cacher2 = ...; readonly = ...
MakePointers ==
    /\ pc = "pointers"
    /\ ptrs' = Pointers
    /\ pc' = "register"
    /\ log' = Append(log, Ev("pointers", 0))
    /\ UNCHANGED << efer, levels, mmu, mem, ptcache, pte, tmp, heap, val,
                    callback, cr2, step, results, faults >>

\* tst_set_interrupt_callback(INTR_PAGE_FAULT, handle_page_fault, readonly)
Register ==
    /\ pc = "register"
    /\ callback' = [registered |-> TRUE, userdata |-> ptrs.readonly]
    /\ pc' = "probe"
    /\ log' = Append(log, Ev("register", ptrs.readonly))
    /\ UNCHANGED << efer, levels, mmu, mem, ptcache, pte, tmp, heap, ptrs, val,
                    cr2, step, results, faults >>

\* one of val = *cacher1; *writable = val; val = *cacher2; *readonly = val
\* when the MMU lets it through
ProbeAccess ==
    /\ pc = "probe"
    /\ LET a == ProbeSeq[step]
           vpn == ptrs[a.ptr]
           path == Walk(mem, levels, vpn)
           f == FrameOfWalk(path)
       IN /\ ~MustFault(mmu, ptcache, path, a.op)
          /\ IF a.op = "read"
             THEN /\ val' = ReadInt(mem[f][0])
                  /\ UNCHANGED mem
             ELSE /\ mem' = [mem EXCEPT ![f][0] = WriteInt(@, val)]
                  /\ UNCHANGED val
          /\ ptcache' = FillCache(ptcache, path)
          /\ log' = Append(log, Ev(a.op, vpn))
    /\ pc' = IF step = Len(ProbeSeq) THEN "report_fail" ELSE "probe"
    /\ step' = step + 1
    /\ UNCHANGED << efer, levels, mmu, pte, tmp, heap, ptrs, callback, cr2,
                    results, faults >>

\* the same access when it raises a page fault: the interrupt table calls the
\* registered callback
RaiseFault ==
    /\ pc = "probe"
    /\ LET a == ProbeSeq[step]
           vpn == ptrs[a.ptr]
           path == Walk(mem, levels, vpn)
       IN /\ MustFault(mmu, ptcache, path, a.op) \/ mmu = "spurious"
          /\ cr2' = vpn
          /\ faults' = Append(faults, vpn)
          /\ log' = Append(log, Ev(a.op, vpn))
    /\ pc' = IF callback.registered THEN "page_fault" ELSE "unhandled"
    /\ UNCHANGED << efer, levels, mmu, mem, ptcache, pte, tmp, heap, ptrs, val,
                    callback, step, results >>

\* faulty variant: kvm_exit() is missing, the handler falls through to return 0
AfterPass_NoExit == "unhandled"

\* kvm_exit() after the pass report: the guest ends inside the handler
AfterPass == "exited"

\* handle_page_fault(userdata, ifrm, errcode)
handle_page_fault ==
    /\ pc = "page_fault"
    /\ IF FaultIsExpected(cr2, callback.userdata)
       THEN /\ results' = Append(results, "TPASS")
            /\ pc' = AfterPass
       ELSE /\ UNCHANGED results
            /\ pc' = "unhandled"
    /\ log' = Append(log, Ev("handler", cr2))
    /\ UNCHANGED << efer, levels, mmu, mem, ptcache, pte, tmp, heap, ptrs, val,
                    callback, cr2, step, faults >>

\* the callback returned 0: default handling of the exception ends the guest
DefaultHandler ==
    /\ pc = "unhandled"
    /\ pc' = "escalated"
    /\ log' = Append(log, Ev("default", cr2))
    /\ UNCHANGED << efer, levels, mmu, mem, ptcache, pte, tmp, heap, ptrs, val,
                    callback, cr2, step, results, faults >>

\* tst_res(TFAIL, "Write to read-only address did not page fault")
ReportFail ==
    /\ pc = "report_fail"
    /\ results' = Append(results, "TFAIL")
    /\ pc' = "returned"
    /\ log' = Append(log, Ev("report_fail", 0))
    /\ UNCHANGED << efer, levels, mmu, mem, ptcache, pte, tmp, heap, ptrs, val,
                    callback, cr2, step, faults >>

Next ==
    \/ CheckMode
    \/ Descend
    \/ BranchFound
    \/ Alloc
    \/ Memset
    \/ InstallPte4
    \/ InstallPte5
    \/ InstallPdCache
    \/ InstallPdTarget
    \/ InstallPtCache
    \/ InstallPtTarget
    \/ MakePointers
    \/ Register
    \/ ProbeAccess
    \/ RaiseFault
    \/ handle_page_fault
    \/ DefaultHandler
    \/ ReportFail

Spec == Init /\ [][Next]_vars

\* the guest runs until it ends: every enabled step is eventually taken
FairSpec == Spec /\ WF_vars(Next)

Terminal == {"aborted", "exited", "escalated", "returned"}

\* ------------------------------------------------------------ vocabulary
\* the bootstrap left the processor in 64-bit (long) mode
LongMode == "LMA" \in efer

Range(seq) == {seq[i] : i \in 1..Len(seq)}

\* positions of main before the Constructor has finished
SetupPcs ==
    {"check_mode", "aborted", "find_branch", "alloc", "memset", "pte4", "pte5",
     "pd_cache", "pd_target", "pt_cache", "pt_target"}

Constructed == pc \notin SetupPcs

InstallEvents ==
    {"pte4", "pte5", "pd_cache", "pd_target", "pt_cache", "pt_target"}

AccessEvents == {"read", "write"}

Verdicts == {"TPASS", "TFAIL"}

RECURSIVE CountIn(_, _)
CountIn(seq, S) ==
    IF seq = << >> THEN 0
    ELSE (IF Head(seq) \in S THEN 1 ELSE 0) + CountIn(Tail(seq), S)

HandlerRan == \E i \in 1..Len(log) : log[i].ev = "handler"

PathOf(vpn) == Walk(mem, levels, vpn)

\* ------------------------------------------------------------------- C1
\* C1: on a correct MMU a run from the documented layout raises no fault on
\* accesses 1-3, raises exactly one page fault on the write of step 4, at the
\* address read_only_target; the handler reports pass and the guest exits;
\* the failure report is never reached.
C1_Safe ==
    (mmu = "correct" /\ LongMode) =>
        /\ Len(faults) <= 1
        /\ \A i \in 1..Len(faults) : faults[i] = READONLY
        /\ faults # << >> => step = 4
        /\ step <= 4
        /\ "TFAIL" \notin Range(results)
        /\ pc \notin {"report_fail", "returned", "unhandled", "escalated"}
        /\ HandlerRan => /\ faults = << READONLY >>
                         /\ pc = "exited"
                         /\ results = << "TPASS" >>
        /\ pc \in Terminal => /\ pc = "exited"
                              /\ HandlerRan
                              /\ results = << "TPASS" >>

C1_PassOnCorrectMmu ==
    /\ []C1_Safe
    /\ (mmu = "correct" /\ LongMode) ~> (pc = "exited")

C1_Witness ==
    /\ mmu = "correct"
    /\ pc = "exited"
    /\ faults = << READONLY >>
    /\ results = << "TPASS" >>
    /\ step = 4

\* ------------------------------------------------------------------- C2
\* C2: on a defective MMU the write of step 4 raises no fault, the handler
\* never runs, main reaches its last statement and reports fail, and pass is
\* never reported.
C2_Safe ==
    (mmu = "defective" /\ LongMode) =>
        /\ faults = << >>
        /\ ~HandlerRan
        /\ "TPASS" \notin Range(results)
        /\ pc \notin {"page_fault", "exited", "unhandled", "escalated"}
        /\ pc \in Terminal => pc = "returned" /\ results = << "TFAIL" >>

C2_FailOnDefectiveMmu ==
    /\ []C2_Safe
    /\ (mmu = "defective" /\ LongMode) ~> (pc = "returned")

C2_Witness ==
    /\ mmu = "defective"
    /\ pc = "returned"
    /\ step = 5
    /\ faults = << >>
    /\ results = << "TFAIL" >>

\* ------------------------------------------------------------------- C3
\* C3: for every page fault whose address differs from read_only_target the
\* handler reports nothing, does not exit the guest and returns "not
\* handled", so that default handling takes over; pass is reported only when
\* the faulting address equals read_only_target.
C3_UnexpectedFaultNotHandled ==
    [][ /\ (pc = "page_fault" /\ cr2 # READONLY) =>
            (results' = results /\ pc' = "unhandled")
        /\ "TPASS" \in Range(results') \ Range(results) =>
            (pc = "page_fault" /\ cr2 = READONLY /\ callback.userdata = READONLY)
      ]_vars

C3_Witness ==
    /\ pc = "unhandled"
    /\ HandlerRan
    /\ cr2 \in {CACHER1, WRITABLE, CACHER2}
    /\ results = << >>

\* ------------------------------------------------------------------- C4
\* C4: a verdict (pass or fail) is reported at most once, no step follows a
\* pass report, and a run that completes setup and meets no unexpected fault
\* ends with exactly one verdict.
C4_Safe ==
    /\ CountIn(results, Verdicts) <= 1
    /\ pc \in {"exited", "returned"} => CountIn(results, Verdicts) = 1
    /\ "TPASS" \in Range(results) => pc = "exited"

C4_OneVerdict ==
    /\ []C4_Safe
    /\ [][ "TPASS" \notin Range(results) ]_vars
    /\ (Constructed /\ LongMode) ~> (pc \in {"exited", "returned", "escalated"})

C4_Witness ==
    /\ pc \in {"exited", "returned"}
    /\ CountIn(results, Verdicts) = 1
    /\ step >= 4

\* ------------------------------------------------------------------- C5
\* C5: in a run that passes the mode check the events happen in this order,
\* each at most once: the page-table entries are installed, the handler is
\* registered with read_only_target as context, cache1 is read, write_target
\* is written, cache2 is read, read_only_target is written.
OrderedEvents == InstallEvents \cup AccessEvents \cup {"register"}

RECURSIVE Project(_)
Project(seq) ==
    IF seq = << >> THEN << >>
    ELSE IF Head(seq).ev \in InstallEvents
         THEN << [ev |-> "install", at |-> 0] >> \o Project(Tail(seq))
         ELSE IF Head(seq).ev \in OrderedEvents
              THEN << Head(seq) >> \o Project(Tail(seq))
              ELSE Project(Tail(seq))

ExpectedOrder ==
    << Ev("install", 0), Ev("install", 0), Ev("install", 0), Ev("install", 0),
       Ev("install", 0), Ev("install", 0), Ev("register", READONLY),
       Ev("read", CACHER1), Ev("write", WRITABLE), Ev("read", CACHER2),
       Ev("write", READONLY) >>

C5_EventOrder ==
    LET p == Project(log)
    IN /\ Len(p) <= Len(ExpectedOrder)
       /\ p = SubSeq(ExpectedOrder, 1, Len(p))
       /\ callback.registered => callback.userdata = READONLY

C5_Witness ==
    /\ Project(log) = ExpectedOrder
    /\ callback.registered

\* ------------------------------------------------------------------- C6
\* C6: without long mode main aborts before anything else: no page-table
\* entry is modified, nothing is allocated, no handler is registered, no
\* probe access is attempted and neither pass nor fail is reported.
C6_NoLongModeAborts ==
    ~LongMode =>
        /\ pc \in {"check_mode", "aborted"}
        /\ \E g \in 0..MaxStale : mem = BootLayout(levels, g)
        /\ heap = 0
        /\ ~callback.registered
        /\ \A i \in 1..Len(log) : log[i].ev = "check_mode"
        /\ faults = << >>
        /\ Range(results) \cap Verdicts = {}
        /\ pc = "aborted" => results = << "TBROK" >>

C6_Witness ==
    /\ ~LongMode
    /\ pc = "aborted"
    /\ results = << "TBROK" >>

\* ------------------------------------------------------------------- C7
\* C7: after the Constructor the two entries installed at the branch point
\* are equal in every field but writable, so every address of the second
\* 1 GiB window translates like the address 1 GiB lower in the first window.
BranchTable == mem[FrameOf(pte)]

\* pages covered by one entry of the branch table (1 GiB)
WindowPages == Pow512(2)

\* index slices tried inside a window
SampleIdx == {0, 1, 2, PTE_BITMASK}

SampleOffsets == {d * (PTE_BITMASK + 1) + t : d \in SampleIdx, t \in SampleIdx}

\* frame a virtual page translates to, or -1 when its walk meets a
\* non-present entry
Translate(vpn) ==
    LET path == PathOf(vpn)
    IN IF Mapped(path) /\ Leaf(path).level = 1 THEN FrameOfWalk(path) ELSE -1

C7_AliasedWindows ==
    Constructed =>
        /\ BranchTable[4].present = 1
        /\ BranchTable[5].present = BranchTable[4].present
        /\ BranchTable[5].user_access = BranchTable[4].user_access
        /\ BranchTable[5].page_size = BranchTable[4].page_size
        /\ BranchTable[5].address = BranchTable[4].address
        /\ BranchTable[5].writable # BranchTable[4].writable
        /\ \A o \in SampleOffsets :
              Translate(CACHER2 + o) = Translate(CACHER2 + o - WindowPages)

C7_Witness ==
    /\ Constructed
    /\ Translate(CACHER2) # -1
    /\ Translate(CACHER2) = Translate(CACHER1)
    /\ Translate(CACHER2 + 2) = -1

\* ------------------------------------------------------------------- C8
\* C8 (as stated): on the path of read_only_target every non-leaf entry is
\* writable and the leaf entry is read-only; the leaf entries of write_target
\* and read_only_target point at the same page and differ in writable.
C8_Original ==
    Constructed =>
        LET ro == PathOf(READONLY)
            wr == PathOf(WRITABLE)
        IN /\ \A i \in 1..(Len(ro) - 1) : ro[i].entry.writable = 1
           /\ Leaf(ro).entry.writable = 0
           /\ Leaf(ro).entry.address = Leaf(wr).entry.address
           /\ Leaf(ro).entry.writable # Leaf(wr).entry.writable

\* C8 (amended): on the path of read_only_target the entry installed at the
\* branch point is the only read-only one, every entry beneath it, the leaf
\* included, is writable; the walks of write_target and read_only_target end
\* in one and the same leaf entry and differ only in the branch-point entry.
C8_ReadOnlyAtBranchPoint ==
    Constructed =>
        LET ro == PathOf(READONLY)
            wr == PathOf(WRITABLE)
        IN /\ Len(ro) = levels /\ Len(wr) = levels
           /\ Mapped(ro) /\ Mapped(wr)
           /\ \A i \in 1..Len(ro) :
                 /\ (ro[i].entry.writable = 0) <=> (ro[i].level = 3)
                 /\ ro[i].level = 3 =>
                       (ro[i].frame = FrameOf(pte) /\ ro[i].index = 5)
                 /\ ro[i].level # 3 => ro[i] = wr[i]
           /\ Leaf(ro).level = 1
           /\ Leaf(ro).entry.writable = 1
           /\ Leaf(ro) = Leaf(wr)

C8_Witness ==
    /\ Constructed
    /\ Leaf(PathOf(READONLY)).level = 1
    /\ Leaf(PathOf(READONLY)).entry.present = 1
    /\ Leaf(PathOf(READONLY)).entry.writable = 1
    /\ BranchTable[5].writable = 0

\* ------------------------------------------------------------------- C9
\* C9: after the Constructor write_target and read_only_target translate to
\* one data frame, cache1 and cache2 to another one, and inside each window
\* the cache pointer and the target pointer use different page-directory
\* entries and different page-table pages.
EntryAt(path, L) ==
    LET i == CHOOSE j \in 1..Len(path) : path[j].level = L IN path[i]

HasLevel(path, L) == \E j \in 1..Len(path) : path[j].level = L

SeparateBelowDirectory(a, b) ==
    LET pa == PathOf(a)
        pb == PathOf(b)
    IN /\ HasLevel(pa, 2) /\ HasLevel(pb, 2) /\ HasLevel(pa, 1) /\ HasLevel(pb, 1)
       /\ EntryAt(pa, 2).frame = EntryAt(pb, 2).frame
       /\ EntryAt(pa, 2).index # EntryAt(pb, 2).index
       /\ EntryAt(pa, 1).frame # EntryAt(pb, 1).frame

C9_FramesAndTables ==
    Constructed =>
        /\ Translate(WRITABLE) # -1
        /\ Translate(CACHER1) # -1
        /\ Translate(WRITABLE) = Translate(READONLY)
        /\ Translate(CACHER1) = Translate(CACHER2)
        /\ Translate(WRITABLE) # Translate(CACHER1)
        /\ SeparateBelowDirectory(CACHER1, WRITABLE)
        /\ SeparateBelowDirectory(CACHER2, READONLY)

C9_Witness ==
    /\ Constructed
    /\ Translate(READONLY) = FrameOf(tmp + 4 * PAGESIZE)
    /\ Translate(CACHER2) = FrameOf(tmp + 3 * PAGESIZE)

\* ------------------------------------------------------------------ C10
\* C10: after the Constructor the branch-point entry of the first window
\* and every entry on the walk to write_target are writable; the
\* branch-point entry of the second window is not writable and every entry
\* beneath it on the walk to read_only_target is; so write_target is
\* effectively writable and read_only_target effectively read-only.
C10_EffectivePermissions ==
    Constructed =>
        LET ro == PathOf(READONLY)
            wr == PathOf(WRITABLE)
        IN /\ BranchTable[4].writable = 1
           /\ EntryAt(wr, 3).entry = BranchTable[4]
           /\ Mapped(wr) /\ Leaf(wr).level = 1
           /\ \A i \in 1..Len(wr) : wr[i].entry.writable = 1
           /\ BranchTable[5].writable = 0
           /\ EntryAt(ro, 3).entry = BranchTable[5]
           /\ Mapped(ro) /\ Leaf(ro).level = 1
           /\ \A i \in 1..Len(ro) : ro[i].level < 3 => ro[i].entry.writable = 1
           /\ PathWritable(wr)
           /\ ~PathWritable(ro)

C10_Witness ==
    /\ Constructed
    /\ PathWritable(PathOf(WRITABLE))
    /\ ~PathWritable(PathOf(READONLY))
    /\ Mapped(PathOf(READONLY))

\* ------------------------------------------------------------------ C11
\* C11: cache1 and write_target lie in one 1 GiB-aligned window, cache2 and
\* read_only_target in another one, both windows lie at or above 4 GiB and
\* neither overlaps an address range mapped by the bootstrap layout.
WindowOf(vpn) == vpn \div WindowPages

\* first page at or above the 4 GiB boundary
FourGiBPage == 4 * WindowPages

\* the 1 GiB regions the bootstrap layout maps, wholly or in part
BootWindows == {0, 1, 3}

MappedAtBoot(vpn) ==
    LET path == Walk(BootLayout(levels, 0), levels, vpn)
    IN Mapped(path) /\ Leaf(path).level > 0

PointersMade == LongMode /\ pc \notin (SetupPcs \cup {"pointers"})

C11_WindowsAboveFourGiB ==
    PointersMade =>
        /\ WindowOf(ptrs.cacher1) = WindowOf(ptrs.writable)
        /\ WindowOf(ptrs.cacher2) = WindowOf(ptrs.readonly)
        /\ WindowOf(ptrs.cacher1) # WindowOf(ptrs.cacher2)
        /\ \A p \in {"cacher1", "writable", "cacher2", "readonly"} :
              /\ ptrs[p] >= FourGiBPage
              /\ WindowOf(ptrs[p]) \notin BootWindows
              /\ \A o \in SampleOffsets :
                    ~MappedAtBoot(WindowOf(ptrs[p]) * WindowPages + o)

C11_Witness ==
    /\ PointersMade
    /\ WindowOf(ptrs.writable) = 4
    /\ WindowOf(ptrs.readonly) = 5
    /\ MappedAtBoot(3 * WindowPages + PTE_BITMASK * (PTE_BITMASK + 1) + PTE_BITMASK)
    /\ MappedAtBoot(WindowPages + 1)

\* ------------------------------------------------------------------ C12
\* C12 (as stated): the search starts at the root, descends through the
\* second entry of each level and stops at the first level whose second
\* entry is not present.
C12_Original ==
    [][ /\ (pc = "find_branch" /\ pc' = "find_branch") =>
            pte' = kvm_get_page_address_pae(mem[FrameOf(pte)][1])
        /\ (pc = "find_branch" /\ pc' = "alloc") =>
            mem[FrameOf(pte)][1].present = 0
      ]_vars

\* C12 (amended): the search starts at the root, descends through the first
\* entry of each level as long as the second entry of the level is not
\* present, and stops at the first level whose second entry is present; that
\* table is the branch point.
C12_SearchFollowsFirstEntry ==
    /\ [](pc = "check_mode" => pte = kvm_pagetable(levels))
    /\ [][ /\ (pc = "check_mode" /\ pc' = "find_branch") =>
               pte' = kvm_pagetable(levels)
           /\ (pc = "find_branch" /\ pc' = "find_branch") =>
               /\ mem[FrameOf(pte)][1].present = 0
               /\ pte' = mem[FrameOf(pte)][0].address * PAGESIZE
           /\ (pc = "find_branch" /\ pc' = "alloc") =>
               /\ mem[FrameOf(pte)][1].present = 1
               /\ pte' = pte
           /\ pc \notin {"check_mode", "find_branch"} => pte' = pte
         ]_vars

C12_Witness ==
    /\ pc = "alloc"
    /\ levels = 5
    /\ pte = BootTable(3) * PAGESIZE
    /\ mem[FrameOf(pte)][1].present = 1
    /\ Len(log) = 4

\* ------------------------------------------------------------------ C13
\* entries of the branch table as the bootstrap left them
BootBranchTable == BootLayout(levels, 0)[BootTable(3)]

\* C13 (as stated): the Constructor installs its mappings in the entry of
\* the third 1 GiB region of the branch table and in no other entry.
C13_Original ==
    Constructed =>
        /\ BranchTable[2].present = 1
        /\ \A i \in 0..PTE_BITMASK : i # 2 => BranchTable[i] = BootBranchTable[i]

\* C13 (amended): the Constructor installs its mappings in the entries 4 and
\* 5 of the branch table (the fifth and sixth 1 GiB regions, free in the
\* bootstrap layout) and in no other entry; the entry of the third region
\* stays non-present.
C13_InstallsAboveFourGiB ==
    Constructed =>
        /\ FrameOf(pte) = BootTable(3)
        /\ BootBranchTable[4].present = 0 /\ BootBranchTable[5].present = 0
        /\ BranchTable[4].present = 1 /\ BranchTable[5].present = 1
        /\ BranchTable[4].address = FrameOf(heap)
        /\ BranchTable[5].address = FrameOf(heap)
        /\ BranchTable[2].present = 0
        /\ \A i \in 0..PTE_BITMASK :
              i \notin {4, 5} => BranchTable[i] = BootBranchTable[i]

C13_Witness ==
    /\ Constructed
    /\ BranchTable[4] # BootBranchTable[4]
    /\ BranchTable[5] # BootBranchTable[5]
    /\ BranchTable[3].present = 1
    /\ BranchTable[2] = ZeroEntry

\* ------------------------------------------------------------------ C14
\* C14: from the bootstrap layout, with 4 and with 5 levels, the search loop
\* ends: it visits at most one table per level, never follows a non-present
\* entry and never descends below the table whose entries cover 1 GiB.
Descents == CountIn([i \in 1..Len(log) |-> log[i].ev], {"descend"})

SearchTables == {BootTable(L) * PAGESIZE : L \in 3..levels}

C14_Safe ==
    LongMode =>
        /\ Descents <= levels - 3
        /\ pte \in SearchTables
        /\ pc \notin {"check_mode", "find_branch"} => pte = BootTable(3) * PAGESIZE

C14_SearchTerminates ==
    /\ []C14_Safe
    /\ [][ (pc = "find_branch" /\ pc' = "find_branch") =>
              /\ mem[FrameOf(pte)][0].present = 1
              /\ \E L \in 4..levels :
                    /\ pte = BootTable(L) * PAGESIZE
                    /\ pte' = BootTable(L - 1) * PAGESIZE
         ]_vars
    /\ (pc = "find_branch") ~> (pc = "alloc")

C14_Witness ==
    /\ pc = "alloc"
    /\ levels = 5
    /\ Descents = 2
    /\ pte = BootTable(3) * PAGESIZE

\* ------------------------------------------------------------------ C15
\* C15: the Constructor writes only the two new entries of the branch table
\* and the allocated block; no other table entry changes, so every address
\* that translated before setup translates to the same frame with the same
\* permissions afterwards.
BlockFrames ==
    IF heap = 0 THEN {} ELSE FrameOf(heap) .. (FrameOf(heap + 5 * PAGESIZE) - 1)

\* frame and rights an address resolves to in memory m
Resolve(m, vpn) ==
    LET path == Walk(m, levels, vpn)
    IN IF Mapped(path) /\ Leaf(path).level > 0
       THEN [frame |-> Leaf(path).entry.address + (vpn % Pow512(Leaf(path).level - 1)),
             writable |-> PathWritable(path),
             user |-> \A i \in 1..Len(path) : path[i].entry.user_access = 1]
       ELSE [frame |-> -1, writable |-> FALSE, user |-> FALSE]

\* sampled pages of the four low 1 GiB regions
BootSample == {w * WindowPages + o : w \in 0..3, o \in SampleOffsets}

UntouchedSince(boot) ==
    \A f \in PhysFrames :
        IF f \in BlockFrames THEN TRUE
        ELSE IF f = BootTable(3)
             THEN \A i \in 0..PTE_BITMASK :
                     i \notin {4, 5} => mem[f][i] = boot[f][i]
             ELSE mem[f] = boot[f]

C15_OldMappingsKept ==
    /\ \E g \in 0..MaxStale : UntouchedSince(BootLayout(levels, g))
    /\ \A v \in BootSample :
          MappedAtBoot(v) => Resolve(mem, v) = Resolve(BootLayout(levels, 0), v)

C15_Witness ==
    /\ Constructed
    /\ Resolve(mem, 4 * WindowPages - 1).frame = 4 * WindowPages - 1
    /\ Resolve(mem, WindowPages + 1).frame = WindowPages + 1
    /\ Resolve(mem, 2 * WindowPages).frame = -1
    /\ mem[BootTable(3)] # BootBranchTable

\* ------------------------------------------------------------------ C16
\* C16: once the handler is registered no page-table entry changes any more:
\* the writes through write_target and read_only_target change at most the
\* data frame shared by the two targets, and the handler writes nothing.
TargetDataFrame == FrameOf(tmp + 4 * PAGESIZE)

Writes == CountIn([i \in 1..Len(log) |-> log[i].ev], {"write"})

C16_TablesFrozenAfterRegister ==
    [][ /\ callback.registered =>
            \A f \in DOMAIN mem : f # TargetDataFrame => mem'[f] = mem[f]
        /\ pc \in {"page_fault", "unhandled"} => mem' = mem
      ]_vars

C16_Witness ==
    /\ callback.registered
    /\ Writes = 2
    /\ faults = << >>
    /\ pc = "report_fail"
    /\ Translate(READONLY) = TargetDataFrame

\* ------------------------------------------------------------------ C17
\* C17: the block is page-aligned, exactly 5 pages long and zeroed as a whole
\* before the first entry pointing into it is installed; from then on the
\* only present entries of its three table pages are the four installed
\* ones, and every installed entry points at a page of the block.
AfterFirstInstall ==
    pc \notin {"check_mode", "aborted", "find_branch", "alloc", "memset", "pte4"}

\* (table page, index) of the entries written by lines 92-111
InstalledSlots == { << 0, 0 >>, << 0, 1 >>, << 1, 0 >>, << 2, 0 >> }

StalePage(g) == [i \in 0..PTE_BITMASK |-> StaleEntry(g)]

C17_BlockZeroedBeforeUse ==
    /\ heap # 0 =>
          /\ heap % PAGESIZE = 0
          /\ Cardinality(BlockFrames) = 5
          /\ \E g \in 0..MaxStale :
                \A f \in HeapFrames \ BlockFrames : mem[f] = StalePage(g)
    /\ pc = "pte4" => \A f \in BlockFrames : mem[f] = ZeroPage
    /\ AfterFirstInstall =>
          /\ \A k \in 0..2 : \A i \in 0..PTE_BITMASK :
                LET e == mem[FrameOf(heap) + k][i]
                IN e.present = 1 =>
                      /\ << k, i >> \in InstalledSlots
                      /\ e.address \in BlockFrames
          /\ BranchTable[4].present = 1
          /\ BranchTable[4].address \in BlockFrames
          /\ BranchTable[5].present = 1 => BranchTable[5].address \in BlockFrames

C17_Witness ==
    /\ Constructed
    /\ \E f \in HeapFrames \ BlockFrames : mem[f][0].present = 1
    /\ mem[FrameOf(heap) + 2][0].present = 1
    /\ mem[FrameOf(heap) + 2][1].present = 0

\* ------------------------------------------------------------------ C18
\* C18: after the Constructor a level-by-level walk of each of the four
\* pointer values finds a present entry at every level, passes through the
\* entry installed at the branch point for its window and the sub-table
\* entries the Constructor wrote, and ends at a data page of the block.
IsTarget(p) == p \in {"writable", "readonly"}

InSecondWindow(p) == p \in {"cacher2", "readonly"}

WalkAsBuilt(p) ==
    LET path == PathOf(ptrs[p])
        b == FrameOf(tmp)
    IN /\ Len(path) = levels
       /\ Mapped(path)
       /\ \A i \in 1..Len(path) :
             /\ path[i].level = levels + 1 - i
             /\ path[i].level > 3 =>
                   (path[i].frame = BootTable(path[i].level) /\ path[i].index = 0)
       /\ EntryAt(path, 3).frame = FrameOf(pte)
       /\ EntryAt(path, 3).index = (IF InSecondWindow(p) THEN 5 ELSE 4)
       /\ EntryAt(path, 2).frame = b
       /\ EntryAt(path, 2).index = (IF IsTarget(p) THEN 1 ELSE 0)
       /\ EntryAt(path, 1).frame = (IF IsTarget(p) THEN b + 2 ELSE b + 1)
       /\ EntryAt(path, 1).index = 0
       /\ FrameOfWalk(path) = (IF IsTarget(p) THEN b + 4 ELSE b + 3)

C18_PointersMatchTables ==
    PointersMade =>
        \A p \in {"cacher1", "writable", "cacher2", "readonly"} : WalkAsBuilt(p)

C18_Witness ==
    /\ PointersMade
    /\ levels = 5
    /\ WalkAsBuilt("readonly")
    /\ FrameOfWalk(PathOf(ptrs.cacher1)) = FrameOf(heap) + 3

====
